---- MODULE Spec2Model ----
(***************************************************************************)
(* Model of scripts/check_e2e_tests_are_captured_in_ci.py: the three suite *)
(* name extractors and main(), the gate that compares their results.       *)
(*                                                                         *)
(* A Python string is modelled as a sequence of one-character strings, so  *)
(* that regular-expression matching, case conversion and the code-point    *)
(* order used by sorted() are computed and not assumed.                    *)
(***************************************************************************)
EXTENDS Integers, Sequences, FiniteSets, TLC

VARIABLES
    pc,                              \* position of main()
    protractor_found,                \* key_regex.findall(...) of the config, in file order
    jobs_found,                      \* camelCased names found in env.jobs, in file order
    scripts_found,                   \* names found in script, in file order
    protractor_test_suites,          \* main(): local list
    yaml_jobs,                       \* main(): local list
    yaml_scripts,                    \* main(): local list
    excluded_idx,                    \* main(): position of the for loop over the allow-list
    raised,                          \* message of the exception that ended the run, or NoError
    stdout,                          \* lines printed so far
    protractor_config_file_content,  \* text of protractor.conf.js
    jobs_str,                        \* text of env.jobs of .travis.yml
    extracted,                       \* value returned by the extractor under study
    env_jobs_lines,                  \* the lines env.jobs was written with
    suites_object                    \* the <<key, value>> pairs the suites object was written with

vars == <<pc, protractor_found, jobs_found, scripts_found, protractor_test_suites,
          yaml_jobs, yaml_scripts, excluded_idx, raised, stdout,
          protractor_config_file_content, jobs_str, extracted, env_jobs_lines,
          suites_object>>

textVars == <<protractor_config_file_content, jobs_str, extracted, env_jobs_lines,
              suites_object>>

(***************************************************************************)
(* Bounds of the model.                                                    *)
(***************************************************************************)
MaxLen == 2         \* most names one source lists besides the allow-listed ones
MaxEntries == 3     \* most lines of env.jobs
MaxSuites == 3      \* most "key: value" pairs of the suites object

(***************************************************************************)
(* Characters and Python's order on strings.                               *)
(***************************************************************************)
Range(seq) == {seq[i] : i \in 1..Len(seq)}

\* The characters the model uses, in code-point order.
Ascii ==
    <<" ", "'", ",", "-", ".", "1", "2", ":", "=",
      "A", "B", "C", "D", "E", "F", "G", "H", "I", "J", "K", "L", "M",
      "N", "O", "P", "Q", "R", "S", "T", "U", "V", "W", "X", "Y", "Z",
      "[", "]", "_",
      "a", "b", "c", "d", "e", "f", "g", "h", "i", "j", "k", "l", "m",
      "n", "o", "p", "q", "r", "s", "t", "u", "v", "w", "x", "y", "z",
      "{", "}">>

Ord == [c \in Range(Ascii) |-> CHOOSE i \in 1..Len(Ascii) : Ascii[i] = c]

UpperCase == <<"A", "B", "C", "D", "E", "F", "G", "H", "I", "J", "K", "L", "M",
               "N", "O", "P", "Q", "R", "S", "T", "U", "V", "W", "X", "Y", "Z">>
LowerCase == <<"a", "b", "c", "d", "e", "f", "g", "h", "i", "j", "k", "l", "m",
               "n", "o", "p", "q", "r", "s", "t", "u", "v", "w", "x", "y", "z">>
Digits == {"1", "2"}

\* str < str: lexicographic on code points, a proper prefix is smaller.
RECURSIVE StrLess(_, _)
StrLess(a, b) ==
    IF b = <<>> THEN FALSE
    ELSE IF a = <<>> THEN TRUE
    ELSE IF a[1] # b[1] THEN Ord[a[1]] < Ord[b[1]]
    ELSE StrLess(Tail(a), Tail(b))

\* sorted(list) of a list of strings: ascending, stable.
sortedUnsorted(list) == list

RECURSIVE sorted(_)
sorted(list) ==
    IF list = <<>> THEN <<>>
    ELSE LET n == Len(list)
             init == sorted(SubSeq(list, 1, n - 1))
             x == list[n]
             k == Cardinality({i \in 1..(n - 1) : ~StrLess(x, init[i])})
         IN  SubSeq(init, 1, k) \o <<x>> \o SubSeq(init, k + 1, n - 1)

(***************************************************************************)
(* Program constants.                                                      *)
(***************************************************************************)
Full == <<"f", "u", "l", "l">>
ClassroomPageFileUploadFeatures ==
    <<"c", "l", "a", "s", "s", "r", "o", "o", "m", "P", "a", "g", "e", "F", "i", "l",
      "e", "U", "p", "l", "o", "a", "d", "F", "e", "a", "t", "u", "r", "e", "s">>
FileUploadFeatures ==
    <<"f", "i", "l", "e", "U", "p", "l", "o", "a", "d", "F", "e", "a", "t", "u", "r",
      "e", "s">>
TopicAndStoryEditorFileUploadFeatures ==
    <<"t", "o", "p", "i", "c", "A", "n", "d", "S", "t", "o", "r", "y", "E", "d", "i",
      "t", "o", "r", "F", "i", "l", "e", "U", "p", "l", "o", "a", "d", "F", "e", "a",
      "t", "u", "r", "e", "s">>

TEST_SUITES_NOT_RUN_ON_TRAVIS ==
    <<Full, ClassroomPageFileUploadFeatures, FileUploadFeatures,
      TopicAndStoryEditorFileUploadFeatures>>

SAMPLE_TEST_SUITE_THAT_IS_KNOWN_TO_EXIST ==
    <<"e", "x", "p", "l", "o", "r", "a", "t", "i", "o", "n", "I", "m", "p", "r", "o",
      "v", "e", "m", "e", "n", "t", "s", "T", "a", "b">>

\* Messages of the exceptions and the lines main() prints.
NoError == "no exception"
JobsEmpty ==
    "The e2e test suites that have been extracted from jobs section from travis.ci are empty."
ScriptEmpty ==
    "The e2e test suites that have been extracted from script section from travis.ci are empty."
ProtractorEmpty ==
    "The e2e test suites that have been extracted from protractor.conf.js are empty."
JobsLackSample ==
    "explorationImprovementsTab is expected to be in the e2e test suites extracted from the jobs section of .travis.yml file, but it is missing."
ScriptLackSample ==
    "explorationImprovementsTab is expected to be in the e2e test suites extracted from the script section of .travis.yml file, but it is missing."
ProtractorLackSample ==
    "explorationImprovementsTab is expected to be in the e2e test suites extracted from the protractor.conf.js file, but it is missing."
NotInSync == "Protractor test suites and Travis Ci test suites are not in sync."
RemoveValueError == "ValueError: list.remove(x): x not in list"
FindallIndexError == "IndexError: list index out of range"
CheckingLine == "Checking e2e tests are captured in travis.yml..."
DoneLine == "Done!"

(***************************************************************************)
(* main()                                                                  *)
(***************************************************************************)
\* x in list
In(x, list) == \E i \in 1..Len(list) : list[i] = x

\* list after list.remove(x), for x in list: the first occurrence goes.
remove(list, x) ==
    LET i == CHOOSE k \in 1..Len(list) :
                 list[k] = x /\ \A m \in 1..(k - 1) : list[m] # x
    IN  SubSeq(list, 1, i - 1) \o SubSeq(list, i + 1, Len(list))

\* not list
IsEmpty(list) == list = <<>>

\* SAMPLE_TEST_SUITE_THAT_IS_KNOWN_TO_EXIST not in list
LacksSampleInverted(list) == In(SAMPLE_TEST_SUITE_THAT_IS_KNOWN_TO_EXIST, list)

LacksSample(list) == ~In(SAMPLE_TEST_SUITE_THAT_IS_KNOWN_TO_EXIST, list)

\* protractor_test_suites == yaml_jobs and yaml_jobs == yaml_scripts
InSyncJobsOnly(p, j, s) == p = j

InSyncTravisOnly(p, j, s) == j = s

InSyncNegated(p, j, s) == ~(p = j /\ j = s)

InSync(p, j, s) == p = j /\ j = s

\* The chain of checks of main(): the message of the first raise reached, or
\* NoError when none is.
ValidationError(p, j, s) ==
    IF IsEmpty(j) THEN JobsEmpty
    ELSE IF IsEmpty(s) THEN ScriptEmpty
    ELSE IF IsEmpty(p) THEN ProtractorEmpty
    ELSE IF LacksSample(j) THEN JobsLackSample
    ELSE IF LacksSample(s) THEN ScriptLackSample
    ELSE IF LacksSample(p) THEN ProtractorLackSample
    ELSE IF ~InSync(p, j, s) THEN NotInSync
    ELSE NoError

\* Names the sources of the model list.
Accessibility == <<"a", "c", "c", "e", "s", "s", "i", "b", "i", "l", "i", "t", "y">>
SuiteNames == {SAMPLE_TEST_SUITE_THAT_IS_KNOWN_TO_EXIST, Accessibility}

SeqsUpTo(S, n) == UNION {[1..k -> S] : k \in 0..n}

\* The allow-listed names a config lists, in the order of the allow-list.
RECURSIVE Pick(_, _)
Pick(list, keep) ==
    IF list = <<>> THEN <<>>
    ELSE (IF 1 \in keep THEN <<list[1]>> ELSE <<>>)
         \o Pick(Tail(list), {i - 1 : i \in keep \ {1}})

AllowParts ==
    {Pick(TEST_SUITES_NOT_RUN_ON_TRAVIS, keep) :
        keep \in SUBSET (1..Len(TEST_SUITES_NOT_RUN_ON_TRAVIS))}
    \cup {<<Full>> \o TEST_SUITES_NOT_RUN_ON_TRAVIS}

\* What a section of .travis.yml lists: suite names, and at times a suite of
\* the allow-list as well.
TravisLists ==
    SeqsUpTo(SuiteNames, MaxLen) \cup {list \o <<Full>> : list \in SeqsUpTo(SuiteNames, MaxLen)}

Init ==
    /\ pc = "start"
    /\ \E core \in SeqsUpTo(SuiteNames, MaxLen), allow \in AllowParts :
           protractor_found = core \o allow
    /\ jobs_found \in TravisLists
    /\ scripts_found \in TravisLists
    /\ protractor_test_suites = <<>>
    /\ yaml_jobs = <<>>
    /\ yaml_scripts = <<>>
    /\ excluded_idx = 0
    /\ raised = NoError
    /\ stdout = <<>>
    /\ protractor_config_file_content = <<>>
    /\ jobs_str = <<>>
    /\ extracted = <<>>
    /\ env_jobs_lines = <<>>
    /\ suites_object = <<>>

\* Lines 127-130: the first line is printed and the three extractors return
\* their sorted lists.
Extract ==
    /\ pc = "start"
    /\ stdout' = Append(stdout, CheckingLine)
    /\ protractor_test_suites' = sorted(protractor_found)
    /\ yaml_jobs' = sorted(jobs_found)
    /\ yaml_scripts' = sorted(scripts_found)
    /\ excluded_idx' = 1
    /\ pc' = "remove"
    /\ UNCHANGED <<protractor_found, jobs_found, scripts_found, raised>>
    /\ UNCHANGED textVars

\* Lines 132-133: one round of the loop over the allow-list. list.remove raises
\* ValueError, which nothing catches, when the name is not in the list.
RemoveExcluded ==
    /\ pc = "remove"
    /\ LET excluded_test == TEST_SUITES_NOT_RUN_ON_TRAVIS[excluded_idx]
       IN  IF In(excluded_test, protractor_test_suites)
           THEN /\ protractor_test_suites' = remove(protractor_test_suites, excluded_test)
                /\ excluded_idx' = excluded_idx + 1
                /\ pc' = IF excluded_idx = Len(TEST_SUITES_NOT_RUN_ON_TRAVIS)
                         THEN "validate" ELSE "remove"
                /\ UNCHANGED raised
           ELSE /\ raised' = RemoveValueError
                /\ pc' = "done"
                /\ UNCHANGED <<protractor_test_suites, excluded_idx>>
    /\ UNCHANGED <<protractor_found, jobs_found, scripts_found, yaml_jobs, yaml_scripts,
                   stdout>>
    /\ UNCHANGED textVars

\* Lines 135-162: the checks in their order; the first that fails raises, and
\* when none does the last line is printed.
Validate ==
    /\ pc = "validate"
    /\ LET error == ValidationError(protractor_test_suites, yaml_jobs, yaml_scripts)
       IN  IF error = NoError
           THEN /\ stdout' = Append(stdout, DoneLine)
                /\ UNCHANGED raised
           ELSE /\ raised' = error
                /\ UNCHANGED stdout
    /\ pc' = "done"
    /\ UNCHANGED <<protractor_found, jobs_found, scripts_found, protractor_test_suites,
                   yaml_jobs, yaml_scripts, excluded_idx>>
    /\ UNCHANGED textVars

Next == Extract \/ RemoveExcluded \/ Validate

Spec == Init /\ [][Next]_vars

(***************************************************************************)
(* Regular expressions, computed on the characters.                        *)
(***************************************************************************)
\* text has literal at position i.
StartsWithAt(text, i, literal) ==
    /\ i + Len(literal) - 1 <= Len(text)
    /\ \A k \in 1..Len(literal) : text[i + k - 1] = literal[k]

\* Where the longest run of characters of class that starts at i ends: the
\* first position from i on whose character is not in class.
RECURSIVE RunEnd(_, _, _)
RunEnd(text, i, class) ==
    IF i <= Len(text) /\ text[i] \in class THEN RunEnd(text, i + 1, class) ELSE i

RECURSIVE Concat(_)
Concat(strs) == IF strs = <<>> THEN <<>> ELSE strs[1] \o Concat(Tail(strs))

\* separator.join(strs)
RECURSIVE Join(_, _)
Join(strs, separator) ==
    IF strs = <<>> THEN <<>>
    ELSE IF Len(strs) = 1 THEN strs[1]
    ELSE strs[1] \o separator \o Join(Tail(strs), separator)

(***************************************************************************)
(* get_e2e_suite_names_from_jobs_travis_yml_file()                         *)
(***************************************************************************)
RunPrefix == <<"R", "U", "N", "_", "E", "2", "E", "_", "T", "E", "S", "T", "S", "_">>

\* The class [A-Z_] of test_regex.
JobNameClassNoUnderscore == Range(UpperCase)

JobNameClass == Range(UpperCase) \cup {"_"}

\* test_regex.findall(text) from position i on: the groups of the matches of
\* RUN_E2E_TESTS_([A-Z_]*)= from left to right, none overlapping another. The
\* class holds no "=", so only its longest run can be followed by the "=".
RECURSIVE test_regex_findall(_, _)
test_regex_findall(text, i) ==
    IF i > Len(text) THEN <<>>
    ELSE IF StartsWithAt(text, i, RunPrefix)
         THEN LET b == i + Len(RunPrefix)
                  e == RunEnd(text, b, JobNameClass)
              IN  IF e <= Len(text) /\ text[e] = "="
                  THEN <<SubSeq(text, b, e - 1)>> \o test_regex_findall(text, e + 1)
                  ELSE test_regex_findall(text, i + 1)
         ELSE test_regex_findall(text, i + 1)

IndexIn(c, alphabet) == CHOOSE k \in 1..Len(alphabet) : alphabet[k] = c

\* str.lower()
lower(str) ==
    [k \in 1..Len(str) |->
        IF str[k] \in Range(UpperCase) THEN LowerCase[IndexIn(str[k], UpperCase)]
        ELSE str[k]]

\* str.title() of a word: the first letter in upper case, the others in lower case.
title(str) ==
    [k \in 1..Len(str) |->
        IF k = 1 /\ str[k] \in Range(LowerCase) THEN UpperCase[IndexIn(str[k], LowerCase)]
        ELSE lower(str)[k]]

\* str.split('_')
RECURSIVE split(_)
split(str) ==
    LET e == RunEnd(str, 1, Range(Ascii) \ {"_"})
    IN  IF e > Len(str) THEN <<str>>
        ELSE <<SubSeq(str, 1, e - 1)>> \o split(SubSeq(str, e + 1, Len(str)))

\* utils.snake_case_to_camel_case: the first component as it is, the others
\* capitalised, joined.
snake_case_to_camel_case(snake_str) ==
    LET components == split(snake_str)
    IN  components[1]
            \o Concat([k \in 1..(Len(components) - 1) |-> title(components[k + 1])])

\* Lines 50-59: the names of the matches, lower-cased, camel-cased and sorted.
get_e2e_suite_names_from_jobs(text) ==
    LET jobs == test_regex_findall(text, 1)
    IN  sorted([k \in 1..Len(jobs) |-> snake_case_to_camel_case(lower(jobs[k]))])

\* python_utils.convert_to_bytes of env.jobs: the lines, one after the other.
convert_to_bytes(lines) == Join(lines, <<" ">>)

\* The suite names the lines of env.jobs are written with, and their camelCase
\* forms as the claim gives them (FOO_BAR gives fooBar).
JobNameTable ==
    << <<(<<"F", "O", "O", "_", "B", "A", "R">>), <<"f", "o", "o", "B", "a", "r">> >>,
       <<(<<"F", "O", "O">>), <<"f", "o", "o">> >>,
       <<(<<"F", "O", "O", "A">>), <<"f", "o", "o", "a">> >>,
       <<(<<"B", "A", "R">>), <<"b", "a", "r">> >> >>

JobLine(name) == RunPrefix \o name \o <<"=", "t", "r", "u", "e">>

\* Lines of env.jobs that name no suite: another variable, and a name that is
\* not in upper case.
OtherLines ==
    { <<"R", "U", "N", "_", "L", "I", "N", "T", "=", "t", "r", "u", "e">>,
      <<"R", "U", "N", "_", "E", "2", "E", "_", "T", "E", "S", "T", "S", "_",
        "f", "o", "o", "=", "t", "r", "u", "e">> }

EnvJobsLines == {JobLine(JobNameTable[k][1]) : k \in 1..Len(JobNameTable)} \cup OtherLines

InitJobs ==
    /\ pc = "jobs_call"
    /\ env_jobs_lines \in SeqsUpTo(EnvJobsLines, MaxEntries)
    /\ jobs_str = <<>>
    /\ extracted = <<>>
    /\ raised = NoError
    /\ protractor_found = <<>>
    /\ jobs_found = <<>>
    /\ scripts_found = <<>>
    /\ protractor_test_suites = <<>>
    /\ yaml_jobs = <<>>
    /\ yaml_scripts = <<>>
    /\ excluded_idx = 0
    /\ stdout = <<>>
    /\ protractor_config_file_content = <<>>
    /\ suites_object = <<>>

\* Lines 48-59.
GetSuiteNamesFromJobs ==
    /\ pc = "jobs_call"
    /\ jobs_str' = convert_to_bytes(env_jobs_lines)
    /\ extracted' = get_e2e_suite_names_from_jobs(jobs_str')
    /\ pc' = "jobs_returned"
    /\ UNCHANGED <<protractor_found, jobs_found, scripts_found, protractor_test_suites,
                   yaml_jobs, yaml_scripts, excluded_idx, raised, stdout,
                   protractor_config_file_content, env_jobs_lines, suites_object>>

NextJobs == GetSuiteNamesFromJobs

SpecJobs == InitJobs /\ [][NextJobs]_vars

(***************************************************************************)
(* get_e2e_suite_names_from_protractor_file()                              *)
(***************************************************************************)
SuitesOpen == <<"s", "u", "i", "t", "e", "s", " ", "=", " ", "{">>

\* re.compile(r'suites = {([^}]+)}').findall(text) from position i on.
RECURSIVE suite_object_findall(_, _)
suite_object_findall(text, i) ==
    IF i > Len(text) THEN <<>>
    ELSE IF StartsWithAt(text, i, SuitesOpen)
         THEN LET b == i + Len(SuitesOpen)
                  e == RunEnd(text, b, Range(Ascii) \ {"}"})
              IN  IF e > b /\ e <= Len(text)
                  THEN <<SubSeq(text, b, e - 1)>> \o suite_object_findall(text, e + 1)
                  ELSE suite_object_findall(text, i + 1)
         ELSE suite_object_findall(text, i + 1)

\* \w
WordChars == Range(UpperCase) \cup Range(LowerCase) \cup Digits \cup {"_"}

IsWordAt(text, i) == i >= 1 /\ i <= Len(text) /\ text[i] \in WordChars

\* \b before position i
WordBoundaryAt(text, i) == IsWordAt(text, i - 1) # IsWordAt(text, i)

\* The class [a-zA-Z_-] of key_regex.
KeyClass == Range(UpperCase) \cup Range(LowerCase) \cup {"_", "-"}

\* key_regex.findall(text) from position i on: the groups of the matches of
\* \b([a-zA-Z_-]*): from left to right. The class holds no ":", so only its
\* longest run can be followed by the ":"; the run may be empty.
RECURSIVE key_regex_findall(_, _)
key_regex_findall(text, i) ==
    IF i > Len(text) THEN <<>>
    ELSE IF WordBoundaryAt(text, i)
         THEN LET e == RunEnd(text, i, KeyClass)
              IN  IF e <= Len(text) /\ text[e] = ":"
                  THEN <<SubSeq(text, i, e - 1)>> \o key_regex_findall(text, e + 1)
                  ELSE key_regex_findall(text, i + 1)
         ELSE key_regex_findall(text, i + 1)

\* Keys and values the suites object of the model is written with.
SuiteKeys ==
    { <<"a", "l", "p", "h", "a">>,
      <<"b", "e", "t", "a", "G", "a", "m", "m", "a">>,
      <<"e", "2", "e">> }

SuiteValues ==
    { <<"[", "'", "a", ".", "j", "s", "'", "]">>,
      <<"[", "'", "a", ":", "b", ".", "j", "s", "'", "]">> }

\* suites = { k1: v1, ..., kn: vn }  (suites = {} when there is no pair)
SuitesLiteral(pairs) ==
    SuitesOpen
        \o (IF pairs = <<>> THEN <<>>
            ELSE <<" ">>
                 \o Join([k \in 1..Len(pairs) |-> pairs[k][1] \o <<":", " ">> \o pairs[k][2]],
                         <<",", " ">>)
                 \o <<" ">>)
        \o <<"}">>

InitProtractor ==
    /\ pc = "protractor_call"
    /\ suites_object \in SeqsUpTo(SuiteKeys \X SuiteValues, MaxSuites)
    /\ protractor_config_file_content = SuitesLiteral(suites_object)
    /\ extracted = <<>>
    /\ raised = NoError
    /\ protractor_found = <<>>
    /\ jobs_found = <<>>
    /\ scripts_found = <<>>
    /\ protractor_test_suites = <<>>
    /\ yaml_jobs = <<>>
    /\ yaml_scripts = <<>>
    /\ excluded_idx = 0
    /\ stdout = <<>>
    /\ jobs_str = <<>>
    /\ env_jobs_lines = <<>>

\* Lines 87-97: findall(...)[0] raises IndexError when nothing matches.
GetSuiteNamesFromProtractor ==
    /\ pc = "protractor_call"
    /\ LET objects == suite_object_findall(protractor_config_file_content, 1)
       IN  IF objects = <<>>
           THEN /\ raised' = FindallIndexError
                /\ UNCHANGED extracted
           ELSE /\ extracted' = sorted(key_regex_findall(objects[1], 1))
                /\ UNCHANGED raised
    /\ pc' = "protractor_returned"
    /\ UNCHANGED <<protractor_found, jobs_found, scripts_found, protractor_test_suites,
                   yaml_jobs, yaml_scripts, excluded_idx, stdout,
                   protractor_config_file_content, jobs_str, env_jobs_lines, suites_object>>

NextProtractor == GetSuiteNamesFromProtractor

SpecProtractor == InitProtractor /\ [][NextProtractor]_vars

(***************************************************************************)
(* Properties of main()                                                    *)
(***************************************************************************)
Count(x, list) == Cardinality({i \in 1..Len(list) : list[i] = x})

Excluded == Range(TEST_SUITES_NOT_RUN_ON_TRAVIS)

\* main() has ended.
Finished == pc = "done"

\* The loop over the allow-list has run to its end, so protractor_test_suites is
\* the list the checks of main() read.
RemovalCompleted == excluded_idx = Len(TEST_SUITES_NOT_RUN_ON_TRAVIS) + 1

\* The last line printed is 'Done!'.
PrintedDone == stdout # <<>> /\ stdout[Len(stdout)] = DoneLine

AllNonEmpty == yaml_jobs # <<>> /\ yaml_scripts # <<>> /\ protractor_test_suites # <<>>

SampleInAll ==
    /\ In(SAMPLE_TEST_SUITE_THAT_IS_KNOWN_TO_EXIST, yaml_jobs)
    /\ In(SAMPLE_TEST_SUITE_THAT_IS_KNOWN_TO_EXIST, yaml_scripts)
    /\ In(SAMPLE_TEST_SUITE_THAT_IS_KNOWN_TO_EXIST, protractor_test_suites)

ListsEqual == protractor_test_suites = yaml_jobs /\ yaml_jobs = yaml_scripts

\* C1 (soundness of the gate): in every run that prints 'Done!' no exception was
\* raised, the jobs list equals the script list, every name of the test-runner
\* list outside the allow-list is in both CI lists, every name of the CI lists
\* is in the test-runner list, and the three lists are non-empty and hold the
\* sentinel.
C1_Soundness ==
    PrintedDone =>
        /\ raised = NoError
        /\ yaml_jobs = yaml_scripts
        /\ \A n \in Range(protractor_found) \ Excluded :
               In(n, yaml_jobs) /\ In(n, yaml_scripts)
        /\ \A n \in Range(yaml_jobs) \cup Range(yaml_scripts) : In(n, protractor_found)
        /\ protractor_found # <<>>
        /\ AllNonEmpty
        /\ SampleInAll

C1_Witness ==
    /\ Finished
    /\ PrintedDone
    /\ Len(yaml_jobs) = 2
    /\ In(Accessibility, protractor_found)

\* C2 (completeness of the gate): when the jobs list, the script list and the
\* test-runner list after the allow-list removal are equal, non-empty and hold
\* the sentinel, main() ends without an exception and 'Done!' is the last line
\* it printed.
C2_Completeness ==
    (Finished /\ RemovalCompleted /\ ListsEqual /\ AllNonEmpty /\ SampleInAll) =>
        /\ raised = NoError
        /\ stdout = <<CheckingLine, DoneLine>>

C2_Witness ==
    /\ Finished
    /\ RemovalCompleted
    /\ ListsEqual
    /\ yaml_jobs = <<SAMPLE_TEST_SUITE_THAT_IS_KNOWN_TO_EXIST>>
    /\ raised = NoError

\* C3 (allow-list tolerance), as the claim has it: for every non-empty subset A
\* of the allow-list, when the test-runner config lists the names of the CI
\* lists and the names of A, and the CI lists are equal, non-empty and hold the
\* sentinel, main() ends without an exception.
C3_AllowListTolerance ==
    (/\ Finished
     /\ yaml_jobs = yaml_scripts
     /\ yaml_jobs # <<>>
     /\ In(SAMPLE_TEST_SUITE_THAT_IS_KNOWN_TO_EXIST, yaml_jobs)
     /\ \E A \in (SUBSET Excluded) \ {{}} :
            /\ Range(protractor_found) = Range(yaml_jobs) \cup A
            /\ \A n \in A : Count(n, protractor_found) = 1
            /\ \A n \in Range(yaml_jobs) :
                   Count(n, protractor_found) = Count(n, yaml_jobs))
        => raised = NoError /\ PrintedDone

\* C4 (empty-list reporting), as the claim has it: a source whose list is empty
\* while the other two are not makes main() raise the 'are empty' exception of
\* that source; for the test-runner config both when its list is empty as
\* extracted and when the allow-list removal empties it.
C4_EmptyListReporting ==
    Finished =>
        /\ (yaml_jobs = <<>> /\ yaml_scripts # <<>> /\ protractor_found # <<>>)
               => raised = JobsEmpty
        /\ (yaml_scripts = <<>> /\ yaml_jobs # <<>> /\ protractor_found # <<>>)
               => raised = ScriptEmpty
        /\ (/\ yaml_jobs # <<>>
            /\ yaml_scripts # <<>>
            /\ \/ protractor_found = <<>>
               \/ RemovalCompleted /\ protractor_test_suites = <<>>)
               => raised = ProtractorEmpty

\* C5 (mismatch reporting), as the claim has it: whenever two of the three
\* lists main() compares differ, main() raises the 'not in sync' exception.
C5_MismatchAlwaysNotInSync ==
    (Finished /\ RemovalCompleted /\ ~ListsEqual) => raised = NotInSync

\* C5, amended: whenever two of the three lists main() compares differ, main()
\* raises an exception and does not print 'Done!'; the exception is 'not in
\* sync' exactly when the three lists are non-empty and hold the sentinel, and
\* otherwise it is the exception of an earlier check.
C5_MismatchReporting ==
    (Finished /\ RemovalCompleted /\ ~ListsEqual) =>
        /\ raised # NoError
        /\ ~PrintedDone
        /\ raised = NotInSync <=> (AllNonEmpty /\ SampleInAll)

C5_Witness ==
    /\ Finished
    /\ RemovalCompleted
    /\ yaml_jobs # yaml_scripts
    /\ raised = NotInSync

ReachedComparison == Finished /\ raised \in {NoError, NotInSync}

\* C7 (set equality), as the claim has it: the comparison passes exactly when
\* the three collections hold the same set of names, however often a source
\* repeats a name.
C7_SetEquality ==
    ReachedComparison =>
        (raised = NoError <=>
            /\ Range(protractor_test_suites) = Range(yaml_jobs)
            /\ Range(yaml_jobs) = Range(yaml_scripts))

\* C7, amended: the comparison passes exactly when the three collections hold
\* the same names the same number of times (the test-runner config less one
\* occurrence of each allow-listed name), in whatever order the files list
\* them.
C7_MultisetEquality ==
    ReachedComparison =>
        (raised = NoError <=>
            \A n \in Range(protractor_found) \cup Range(jobs_found) \cup Range(scripts_found) :
                /\ Count(n, jobs_found) = Count(n, scripts_found)
                /\ Count(n, protractor_found) - (IF n \in Excluded THEN 1 ELSE 0)
                       = Count(n, jobs_found))

C7_Witness ==
    /\ ReachedComparison
    /\ raised = NoError
    /\ jobs_found # scripts_found
    /\ protractor_found[1] = Accessibility

\* The seven exceptions of the checks of main().
DescriptiveErrors ==
    {JobsEmpty, ScriptEmpty, ProtractorEmpty, JobsLackSample, ScriptLackSample,
     ProtractorLackSample, NotInSync}

\* C10 (one descriptive error, by precedence), as the claim has it: a run of
\* main() over the three extracted lists that fails raises one of the seven
\* exceptions, the one of the first violated condition in the order jobs empty,
\* script empty, test-runner empty, sentinel missing from jobs, from script,
\* from the test-runner list, lists not in sync; and 'Done!' is not printed in
\* a run that raises.
C10_DescriptiveErrorByPrecedence ==
    Finished =>
        /\ raised \in DescriptiveErrors \cup {NoError}
        /\ raised # NoError => ~PrintedDone
        /\ yaml_jobs = <<>> => raised = JobsEmpty
        /\ (yaml_jobs # <<>> /\ yaml_scripts = <<>>) => raised = ScriptEmpty

(***************************************************************************)
(* Properties of the extractors                                            *)
(***************************************************************************)
\* list is in ascending order.
Ascending(list) == \A a, b \in 1..Len(list) : a < b => ~StrLess(list[b], list[a])

\* C8 (keys of the suites object), as the claim has it: for a config with a
\* suites object of one pair or more and no nested braces, the extractor
\* returns the keys of the object, each whole and once for each pair, in
\* ascending order, and nothing else.
C8_ExactlyTheKeys ==
    (pc = "protractor_returned" /\ suites_object # <<>>) =>
        /\ raised = NoError
        /\ Len(extracted) = Len(suites_object)
        /\ \A key \in SuiteKeys :
               Count(key, extracted)
                   = Cardinality({k \in 1..Len(suites_object) : suites_object[k][1] = key})
        /\ Ascending(extracted)

\* C9 (names of env.jobs): the extractor returns, for every line
\* RUN_E2E_TESTS_<NAME>=... of env.jobs, the camelCase form of <NAME>, one entry
\* for each such line, nothing else, in ascending order.
C9_JobNames ==
    pc = "jobs_returned" =>
        /\ Len(extracted)
               = Cardinality({k \in 1..Len(env_jobs_lines) : env_jobs_lines[k] \notin OtherLines})
        /\ \A t \in 1..Len(JobNameTable) :
               Count(JobNameTable[t][2], extracted)
                   = Cardinality({k \in 1..Len(env_jobs_lines) :
                                      env_jobs_lines[k] = JobLine(JobNameTable[t][1])})
        /\ Ascending(extracted)

C9_Witness ==
    /\ pc = "jobs_returned"
    /\ Len(env_jobs_lines) = 3
    /\ extracted = << <<"f", "o", "o", "B", "a", "r">>, <<"f", "o", "o", "B", "a", "r">>,
                      <<"f", "o", "o", "a">> >>

====
